---- MODULE Spec2Model ----
(***************************************************************************)
(* Model of the log-alerting process supervisor (package main with         *)
(* AlertManager, searchLog, findAvailablePort, extractPorts, updateConfig  *)
(* and main).                                                              *)
(*                                                                         *)
(* Strings are sequences of one-character strings.  Time is counted in     *)
(* minutes, the unit of the configured cooldowns.                          *)
(***************************************************************************)
EXTENDS Integers, Sequences, FiniteSets, TLC

VARIABLES
    pc,           \* position of main()
    exitCode,     \* the process exit status once main() has ended
    configFile,   \* the run configuration document (JSON) on disk
    config,       \* *Config returned by readConfig, NoConfig before
    regexPatterns,\* []*regexp.Regexp compiled in main, as their source texts
    am,           \* the AlertManager: sentAlerts, suppressionCounts, cooldowns
    now,          \* the wall clock read by time.Now(), in minutes
    received,     \* number of lines the scanner has returned
    logFile,      \* lines appended to config.LogFile
    calls,        \* what each ShouldSendAlert call returned, in call order
    alerts,       \* calls of sendGoogleChatAlert, in call order
    childConfig,  \* the child's configuration document (YAML) on disk
    held,         \* ports held by bound listeners of other processes
    ports,        \* map returned by extractPorts
    keysLeft,     \* keys of ports that updateConfig has not processed yet
    cur,          \* updateConfig's loop position: key, index, probe port, newPortList
    newConfig,    \* the in-memory document updateConfig rewrites
    tempFile,     \* the "_new" configuration file: whether it exists, and its document
    buildStarted, \* make cdk-erigon has been run
    childStarted, \* runCmd.Start() has succeeded
    stderr,       \* what main reported on the diagnostic stream, in order
    stdout,       \* what main printed on its standard output, in order
    steps,        \* the calls the scan loop made, in order: line number and callee
    childStatus,  \* the exit status runCmd.Wait() collected, none before
    script,       \* what the child writes in this run: stream, text, newline or not
    child,        \* the child process: script entries written, whether it has exited
    pipes,        \* the bytes buffered in the stdout pipe and in the stderr pipe
    reader,       \* io.MultiReader's current source, and the scanner's unfinished line
    env,          \* what the surroundings can do: webhook replies, log-file faults, clock steps
    erigonConfigPath, \* the path of the child's configuration file
    mu,           \* am.mu: the goroutine that holds the lock, none when free
    callers,      \* the goroutines inside ShouldSendAlert: position and locals
    order,        \* the calls of ShouldSendAlert in the order they took the lock
    lastRead      \* what the last GetSuppressionCount call returned, and for which key

vars == <<pc, exitCode, configFile, config, regexPatterns, am, now, received,
          logFile, calls, alerts, childConfig, held, ports, keysLeft, cur,
          newConfig, tempFile, buildStarted, childStarted, stderr, stdout,
          steps, childStatus, script, child, pipes, reader, env,
          erigonConfigPath, mu, callers, order, lastRead>>

alertVars == <<am, now, received, logFile, calls, alerts, stdout, steps>>
portVars == <<childConfig, held, ports, keysLeft, cur, newConfig>>
streamVars == <<script, child, pipes, reader>>
envVars == <<env, erigonConfigPath>>
concVars == <<mu, callers, order, lastRead>>

----------------------------------------------------------------------------
(* Bounds and input sets *)

MaxLines == 3          \* lines the child writes in one run
PortSpan == 3          \* ports 0 .. PortSpan are bindable when not held
ProbeSlack == 2        \* how far past PortSpan the probe counter is followed
PipeCap == 1           \* writes a pipe buffers before the child's next write blocks
Callers == 3           \* goroutines that call ShouldSendAlert at the same time

Running == <<>>               \* no exit status yet
Exited(status) == <<status>>
NoConfig == [Patterns |-> <<>>, DefaultTimeoutMinutes |-> 0]
NoCur == [key |-> <<>>, idx |-> 0, port |-> 0, newPortList |-> <<>>]
Absent == <<>>                \* a JSON key that is left out
\* a goroutine that has not called ShouldSendAlert
Idle == [pc |-> "idle", key |-> <<>>, at |-> 0, count |-> 0, send |-> FALSE]
Present(v) == <<v>>

\* 24 * time.Hour * 365 * 100, in minutes
NeverCooldown == 24 * 60 * 365 * 100

PatternTexts == {<<"a">>, <<"b">>}
Lines == {<<"c">>, <<"a">>, <<"a", "b">>}
Timeouts == {0, 2}
DefaultTimeouts == {1}
Advances == {0, 1, NeverCooldown}

\* what client.Do can come back with: a transport error, or a response status
Statuses == {199, 200, 299, 300}
TransportError == [err |-> TRUE, status |-> 0]
Response(status) == [err |-> FALSE, status |-> status]
Replies == {TransportError} \cup {Response(st) : st \in Statuses}

\* what the child can write: a piece of text on one of its two streams, ended by
\* a newline or not
Streams == {"stdout", "stderr"}
Texts == {<<"c">>, <<"a">>}
Writes == [stream : Streams, text : Texts, nl : BOOLEAN]
Scripts == UNION {[1 .. n -> Writes] : n \in 0 .. MaxLines}

\* what appending to the log file can come to
DiskFaults == {"ok", "openError", "writeError"}

\* what the child's wait status can be
ExitStatuses == {0, 1}

\* surroundings in which the webhook answers 200 and the log file is writable
Calm == [webhook |-> {Response(200)}, disk |-> {"ok"}, advances |-> Advances]

\* entries of "patterns" in the JSON document; timeoutMinutes may be left out
JsonRules == [pattern : PatternTexts,
              timeoutMinutes : {Absent} \cup {Present(t) : t \in Timeouts}]
JsonRuleLists == {<<>>} \cup {<<r>> : r \in JsonRules}
                    \cup {<<r, s>> : r \in JsonRules, s \in JsonRules}
ConfigDocs == [patterns : JsonRuleLists, defaultTimeoutMinutes : DefaultTimeouts]

----------------------------------------------------------------------------
(* Helpers for Go maps and strings *)

Get(m, k, zero) == IF k \in DOMAIN m THEN m[k] ELSE zero
Put(m, k, v) == [x \in DOMAIN m \cup {k} |-> IF x = k THEN v ELSE m[x]]
EmptyMap == [x \in {} |-> 0]

\* strings.Contains / Regexp.MatchString of a literal pattern
Contains(s, sub) ==
    \E i \in 0 .. (Len(s) - Len(sub)) :
        \A j \in 1 .. Len(sub) : s[i + j] = sub[j]

----------------------------------------------------------------------------
(* readConfig and the set-up of the AlertManager in main *)

\* json.Unmarshal into PatternConfig: a missing integer field keeps Go's zero value
UnmarshalRule(r) ==
    [Pattern |-> r.pattern,
     TimeoutMinutes |-> IF r.timeoutMinutes = Absent THEN 0 ELSE r.timeoutMinutes[1]]

readConfig(doc) ==
    [Patterns |-> [i \in 1 .. Len(doc.patterns) |-> UnmarshalRule(doc.patterns[i])],
     DefaultTimeoutMinutes |-> doc.defaultTimeoutMinutes]

\* a main that stores timeoutMinutes = 0 as a cooldown of zero minutes
RuleCooldownZeroIsZero(patternConfig) == patternConfig.TimeoutMinutes

\* the cooldown main stores for one PatternConfig
RuleCooldown(patternConfig) ==
    IF patternConfig.TimeoutMinutes = 0
    THEN NeverCooldown
    ELSE patternConfig.TimeoutMinutes

\* the loop over config.Patterns: later entries overwrite earlier ones of the same text
RECURSIVE BuildCooldowns(_, _, _)
BuildCooldowns(patterns, i, acc) ==
    IF i > Len(patterns) THEN acc
    ELSE BuildCooldowns(patterns, i + 1,
                        Put(acc, patterns[i].Pattern, RuleCooldown(patterns[i])))

CompilePatterns(cfg) == [i \in 1 .. Len(cfg.Patterns) |-> cfg.Patterns[i].Pattern]

NewAlertManager(defaultCooldown, patternCooldowns) ==
    [sentAlerts |-> EmptyMap,
     suppressionCounts |-> EmptyMap,
     defaultCooldown |-> defaultCooldown,
     patternCooldowns |-> patternCooldowns]

\* the AlertManager main builds from a decoded configuration
ManagerOf(cfg) ==
    NewAlertManager(cfg.DefaultTimeoutMinutes, BuildCooldowns(cfg.Patterns, 1, EmptyMap))

NoManager == NewAlertManager(0, EmptyMap)

----------------------------------------------------------------------------
(* Log Classifier *)

NoMatch == [match |-> FALSE, pattern |-> <<>>]

RECURSIVE searchFrom(_, _, _)
searchFrom(log, patterns, i) ==
    IF i > Len(patterns) THEN NoMatch
    ELSE IF Contains(log, patterns[i])
         THEN [match |-> TRUE, pattern |-> patterns[i]]
         ELSE searchFrom(log, patterns, i + 1)

\* a classifier that keeps scanning and returns the last matching rule
RECURSIVE searchBack(_, _, _)
searchBack(log, patterns, i) ==
    IF i < 1 THEN NoMatch
    ELSE IF Contains(log, patterns[i])
         THEN [match |-> TRUE, pattern |-> patterns[i]]
         ELSE searchBack(log, patterns, i - 1)

searchLogLastMatch(log, patterns) == searchBack(log, patterns, Len(patterns))

searchLog(log, patterns) == searchFrom(log, patterns, 1)

----------------------------------------------------------------------------
(* Alert Manager *)

Cooldown(m, pattern) ==
    IF pattern \in DOMAIN m.patternCooldowns
    THEN m.patternCooldowns[pattern]
    ELSE m.defaultCooldown

\* ShouldSendAlert with one part of the decision changed
Decide(m, pattern, t, suppress, restartWindow, reported, reset) ==
    LET key == pattern
        count == Get(m.suppressionCounts, key, 0)
    IN  IF suppress
        THEN [send |-> FALSE,
              count |-> IF reported = "old" THEN count ELSE count + 1,
              am |-> [m EXCEPT !.suppressionCounts = Put(@, key, count + 1),
                               !.sentAlerts = IF restartWindow THEN Put(@, key, t) ELSE @]]
        ELSE [send |-> TRUE,
              count |-> count,
              am |-> [m EXCEPT !.sentAlerts = Put(@, key, t),
                               !.suppressionCounts =
                                   Put(@, key, IF reset THEN 0 ELSE count)]]

InWindow(m, pattern, t) ==
    /\ pattern \in DOMAIN m.sentAlerts
    /\ t - m.sentAlerts[pattern] < Cooldown(m, pattern)

\* suppressed matches restart the cooldown window
ShouldSendAlertSliding(m, pattern, t) ==
    Decide(m, pattern, t, InWindow(m, pattern, t), TRUE, "new", TRUE)

\* a match exactly at the cooldown boundary is still suppressed
ShouldSendAlertInclusive(m, pattern, t) ==
    Decide(m, pattern, t,
           pattern \in DOMAIN m.sentAlerts
               /\ t - m.sentAlerts[pattern] <= Cooldown(m, pattern),
           FALSE, "new", TRUE)

\* a suppressed match returns the count before its own increment
ShouldSendAlertStale(m, pattern, t) ==
    Decide(m, pattern, t, InWindow(m, pattern, t), FALSE, "old", TRUE)

\* a sent alert leaves the suppression count as it was
ShouldSendAlertNoReset(m, pattern, t) ==
    Decide(m, pattern, t, InWindow(m, pattern, t), FALSE, "new", FALSE)

\* a send that restarts the window of every key that has one
ShouldSendAlertSharedWindow(m, pattern, t) ==
    LET r == Decide(m, pattern, t, InWindow(m, pattern, t), FALSE, "new", TRUE)
    IN  [r EXCEPT !.am.sentAlerts =
                      [k \in DOMAIN @ |-> IF r.send THEN t ELSE @[k]]]

\* ShouldSendAlert under the lock: result and the manager afterwards
ShouldSendAlert(m, pattern, t) ==
    LET key == pattern
        cooldown == Cooldown(m, pattern)
        count == Get(m.suppressionCounts, key, 0)
    IN  IF key \in DOMAIN m.sentAlerts /\ t - m.sentAlerts[key] < cooldown
        THEN [send |-> FALSE,
              count |-> count + 1,
              am |-> [m EXCEPT !.suppressionCounts = Put(@, key, count + 1)]]
        ELSE [send |-> TRUE,
              count |-> count,
              am |-> [m EXCEPT !.sentAlerts = Put(@, key, t),
                               !.suppressionCounts = Put(@, key, 0)]]

GetSuppressionCount(m, pattern) == Get(m.suppressionCounts, pattern, 0)

\* an accessor whose map lookup inserts the key it did not find
GetSuppressionCountInserting(m, pattern) ==
    [count |-> Get(m.suppressionCounts, pattern, 0),
     am |-> [m EXCEPT !.suppressionCounts =
                          Put(@, pattern, Get(m.suppressionCounts, pattern, 0))]]

\* GetSuppressionCount under the lock: result and the manager afterwards; reading
\* a Go map at a missing key gives the zero value and inserts nothing
GetSuppressionCountCall(m, pattern) ==
    [count |-> GetSuppressionCount(m, pattern), am |-> m]

----------------------------------------------------------------------------
(* Port Negotiator *)

\* one comma-separated field of a string value: a decimal integer or not
Num(n) == [num |-> TRUE, n |-> n]
Word == [num |-> FALSE, n |-> 0]
\* YAML values: a string (its comma-separated fields) or an integer scalar
Str(fields) == [kind |-> "string", fields |-> fields]
IntVal(n) == [kind |-> "int", fields |-> <<Num(n)>>]

KeyPort == <<"p", "o", "r", "t">>
KeyPorts == <<"p", "o", "r", "t", "s">>
KeyTransport == <<"t", "r", "a", "n", "s", "p", "o", "r", "t">>
KeyDir == <<"d", "i", "r">>

DeclaredPorts == (0 - 1) .. (PortSpan + 1)
Fields == {Num(n) : n \in DeclaredPorts} \cup {Word}
PortStrings == {Str(<<f>>) : f \in Fields} \cup {Str(<<f, g>>) : f \in Fields, g \in Fields}
HeldSets == SUBSET (1 .. PortSpan)

ChildDocs ==
    {(KeyPort :> v) @@ (KeyDir :> Str(<<Word>>)) : v \in PortStrings}
    \cup {(KeyPort :> Str(<<Num(p)>>)) @@ (KeyPorts :> Str(<<Num(q)>>)) :
             p \in 1 .. PortSpan, q \in 1 .. PortSpan}
    \cup {(KeyPort :> IntVal(n)) @@ (KeyDir :> Str(<<Word>>)) : n \in 1 .. PortSpan}
    \cup {(KeyPort :> Str(<<Num(1)>>)) @@ (KeyTransport :> Str(<<Word>>))}

\* net.Listen("tcp", ":port") succeeds: port 0 asks for any free port, a port in
\* the valid range binds when no listener holds it, any other number is rejected
Listen(port, heldPorts) ==
    \/ port = 0
    \/ (port \in 1 .. PortSpan /\ port \notin heldPorts)

\* a loop that returns the next port number without probing it
findAvailablePortNoReprobe(port, heldPorts) ==
    IF Listen(port, heldPorts)
    THEN [done |-> TRUE, port |-> port]
    ELSE [done |-> TRUE, port |-> port + 1]

\* a loop that gives up past the largest valid port and returns what it has
findAvailablePortGivesUp(port, heldPorts) ==
    IF Listen(port, heldPorts) \/ port > PortSpan
    THEN [done |-> TRUE, port |-> port]
    ELSE [done |-> FALSE, port |-> port + 1]

\* one round of the loop of findAvailablePort
findAvailablePortStep(port, heldPorts) ==
    IF Listen(port, heldPorts)
    THEN [done |-> TRUE, port |-> port]
    ELSE [done |-> FALSE, port |-> port + 1]

\* strings.Contains(key, "port") || strings.Contains(key, "ports")
PortKey(key) == Contains(key, KeyPort) \/ Contains(key, KeyPorts)

\* the map extractPorts returns for a parsed document
extractPorts(doc) ==
    LET keys == {k \in DOMAIN doc : PortKey(k) /\ doc[k].kind = "string"}
    IN  [k \in keys |-> doc[k].fields]

\* a join that writes the negotiated ports back in reverse order
JoinPortsReversed(newPortList) ==
    Str([i \in 1 .. Len(newPortList) |->
            Num(newPortList[Len(newPortList) + 1 - i])])

\* paths the child's configuration file can have
ChildPaths == {<<"c", ".", "y">>, <<"c">>, <<"d", ".", "c", "/", "y">>}

\* filepath.Ext: the suffix from the last dot of the last path element, empty
\* when that element has no dot
RECURSIVE ExtFrom(_, _)
ExtFrom(path, i) ==
    IF i = 0 \/ path[i] = "/"
    THEN <<>>
    ELSE IF path[i] = "." THEN SubSeq(path, i, Len(path)) ELSE ExtFrom(path, i - 1)
Ext(path) == ExtFrom(path, Len(path))

\* a new name that is the old name
NewConfigFileInPlace(configPath) ==
    SubSeq(configPath, 1, Len(configPath) - Len(Ext(configPath))) \o Ext(configPath)

\* newConfigFile: the name without its extension, "_new", the extension
NewConfigFile(configPath) ==
    SubSeq(configPath, 1, Len(configPath) - Len(Ext(configPath)))
    \o <<"_", "n", "e", "w">> \o Ext(configPath)

\* strings.Join of the negotiated ports, stored as the new string value
JoinPorts(newPortList) ==
    Str([i \in 1 .. Len(newPortList) |-> Num(newPortList[i])])

----------------------------------------------------------------------------
(* main *)

NoTemp == [exists |-> FALSE, doc |-> EmptyMap]

\* what main prints: a received line, or the status of a webhook response
PrintedLine(log) == [kind |-> "line", log |-> log, status |-> 0]
PrintedStatus(status) == [kind |-> "alertStatus", log |-> <<>>, status |-> status]

\* sendGoogleChatAlert: the message posted, and what the call writes on the two
\* output streams for the given reply of the webhook
sendGoogleChatAlert(log, suppressionCount, reply) ==
    [log |-> log,
     suppressed |-> IF suppressionCount > 0 THEN <<suppressionCount>> ELSE <<>>,
     stderr |-> IF reply.err THEN <<"Error sending alert">> ELSE <<>>,
     stdout |-> IF ~reply.err /\ reply.status > 299
                THEN <<PrintedStatus(reply.status)>>
                ELSE <<>>]

\* logToFile: the log file afterwards, and what the call writes on stderr
logToFile(file, log, fault) ==
    [file |-> IF fault = "ok" THEN Append(file, log) ELSE file,
     stderr |-> IF fault = "openError" THEN <<"Error opening file">>
                ELSE IF fault = "writeError" THEN <<"Error writing to file">>
                ELSE <<>>]

\* a loop that dispatches on every match, sent or suppressed
DispatchedOnAnyMatch(match, shouldSend) == match

\* the scan loop dispatches on a match for which ShouldSendAlert said send
Dispatched(match, shouldSend) == match /\ shouldSend

\* an iteration that classifies the line before it logs it
StepsOfClassifyFirst(k, match, dispatched) ==
    <<[line |-> k, op |-> "Println"], [line |-> k, op |-> "searchLog"],
      [line |-> k, op |-> "logToFile"]>>
    \o (IF match THEN <<[line |-> k, op |-> "ShouldSendAlert"]>> ELSE <<>>)
    \o (IF dispatched THEN <<[line |-> k, op |-> "sendGoogleChatAlert"]>> ELSE <<>>)

\* the calls one iteration of the scan loop makes for line number k, in order
StepsOf(k, match, dispatched) ==
    <<[line |-> k, op |-> "Println"], [line |-> k, op |-> "logToFile"],
      [line |-> k, op |-> "searchLog"]>>
    \o (IF match THEN <<[line |-> k, op |-> "ShouldSendAlert"]>> ELSE <<>>)
    \o (IF dispatched THEN <<[line |-> k, op |-> "sendGoogleChatAlert"]>> ELSE <<>>)

\* log.Fatalf: the message, then os.Exit(1); deferred calls do not run
Fatal(msg) ==
    /\ pc' = "exited"
    /\ exitCode' = Exited(1)
    /\ stderr' = Append(stderr, msg)

\* config, err := readConfig(*configFile)
ReadConfig ==
    /\ pc = "readConfig"
    /\ \E ok \in BOOLEAN :
         IF ok
         THEN /\ config' = readConfig(configFile)
              /\ pc' = "setup"
              /\ UNCHANGED <<exitCode, stderr>>
         ELSE /\ stderr' = Append(stderr, "Error reading config file")
              /\ pc' = "exited"
              /\ exitCode' = Exited(0)
              /\ UNCHANGED config
    /\ UNCHANGED <<configFile, regexPatterns, tempFile, buildStarted, childStarted>>
    /\ UNCHANGED alertVars
    /\ UNCHANGED portVars
    /\ UNCHANGED streamVars
    /\ UNCHANGED envVars
    /\ UNCHANGED concVars
    /\ UNCHANGED childStatus

\* compile the patterns, collect the cooldowns, build the AlertManager
Setup ==
    /\ pc = "setup"
    /\ regexPatterns' = CompilePatterns(config)
    /\ am' = ManagerOf(config)
    /\ pc' = "extractPorts"
    /\ UNCHANGED <<exitCode, configFile, config, tempFile, buildStarted,
                   childStarted, stderr, now, received, logFile, calls, alerts,
                   stdout, steps>>
    /\ UNCHANGED portVars
    /\ UNCHANGED streamVars
    /\ UNCHANGED envVars
    /\ UNCHANGED concVars
    /\ UNCHANGED childStatus

\* originalPorts, err := extractPorts(erigonConfigPath)
ExtractPorts ==
    /\ pc = "extractPorts"
    /\ \E ok \in BOOLEAN :
         IF ok
         THEN /\ ports' = extractPorts(childConfig)
              /\ pc' = "updateConfig"
              /\ UNCHANGED <<exitCode, stderr>>
         ELSE /\ Fatal("Error extracting ports from config file")
              /\ UNCHANGED ports
    /\ UNCHANGED <<configFile, config, regexPatterns, tempFile, buildStarted,
                   childStarted, childConfig, held, keysLeft, cur, newConfig>>
    /\ UNCHANGED alertVars
    /\ UNCHANGED streamVars
    /\ UNCHANGED envVars
    /\ UNCHANGED concVars
    /\ UNCHANGED childStatus

\* updateConfig: read and parse the document again
UpdateConfigRead ==
    /\ pc = "updateConfig"
    /\ \E ok \in BOOLEAN :
         IF ok
         THEN /\ newConfig' = childConfig
              /\ keysLeft' = DOMAIN ports
              /\ pc' = "nextKey"
              /\ UNCHANGED <<exitCode, stderr>>
         ELSE /\ Fatal("Error updating config file")
              /\ UNCHANGED <<newConfig, keysLeft>>
    /\ UNCHANGED <<configFile, config, regexPatterns, tempFile, buildStarted,
                   childStarted, childConfig, held, ports, cur>>
    /\ UNCHANGED alertVars
    /\ UNCHANGED streamVars
    /\ UNCHANGED envVars
    /\ UNCHANGED concVars
    /\ UNCHANGED childStatus

\* for key, portList := range ports: Go visits the keys of a map in any order
NextKey ==
    /\ pc = "nextKey"
    /\ IF keysLeft = {}
       THEN /\ pc' = "writeConfig"
            /\ UNCHANGED <<keysLeft, cur>>
       ELSE \E key \in keysLeft :
                /\ keysLeft' = keysLeft \ {key}
                /\ cur' = [key |-> key, idx |-> 1, port |-> 0, newPortList |-> <<>>]
                /\ pc' = "nextPort"
    /\ UNCHANGED <<exitCode, configFile, config, regexPatterns, tempFile, buildStarted,
                   childStarted, stderr, childConfig, held, ports, newConfig>>
    /\ UNCHANGED alertVars
    /\ UNCHANGED streamVars
    /\ UNCHANGED envVars
    /\ UNCHANGED concVars
    /\ UNCHANGED childStatus

\* for _, portStr := range portValues: Atoi of the next field, or the end of the list
NextPort ==
    /\ pc = "nextPort"
    /\ IF cur.idx > Len(ports[cur.key])
       THEN /\ newConfig' = Put(newConfig, cur.key, JoinPorts(cur.newPortList))
            /\ cur' = NoCur
            /\ pc' = "nextKey"
            /\ UNCHANGED <<exitCode, stderr>>
       ELSE IF ports[cur.key][cur.idx].num
            THEN /\ cur' = [cur EXCEPT !.port = ports[cur.key][cur.idx].n]
                 /\ pc' = "probe"
                 /\ UNCHANGED <<exitCode, stderr, newConfig>>
            ELSE /\ Fatal("Error updating config file")
                 /\ UNCHANGED <<cur, newConfig>>
    /\ UNCHANGED <<configFile, config, regexPatterns, tempFile, buildStarted,
                   childStarted, childConfig, held, ports, keysLeft>>
    /\ UNCHANGED alertVars
    /\ UNCHANGED streamVars
    /\ UNCHANGED envVars
    /\ UNCHANGED concVars
    /\ UNCHANGED childStatus

\* one round of findAvailablePort; the counter is followed up to PortSpan + ProbeSlack
Probe ==
    /\ pc = "probe"
    /\ cur.port <= PortSpan + ProbeSlack
    /\ LET r == findAvailablePortStep(cur.port, held)
       IN  IF r.done
           THEN /\ cur' = [cur EXCEPT !.newPortList = Append(@, r.port),
                                      !.idx = @ + 1]
                /\ pc' = "nextPort"
           ELSE /\ cur' = [cur EXCEPT !.port = r.port]
                /\ pc' = "probe"
    /\ UNCHANGED <<exitCode, configFile, config, regexPatterns, tempFile, buildStarted,
                   childStarted, stderr, childConfig, held, ports, keysLeft, newConfig>>
    /\ UNCHANGED alertVars
    /\ UNCHANGED streamVars
    /\ UNCHANGED envVars
    /\ UNCHANGED concVars
    /\ UNCHANGED childStatus

\* yaml.Marshal and ioutil.WriteFile of the "_new" file, which replaces whatever
\* file has that path; a failed write may leave the file created and empty.  On
\* success main defers os.Remove(tempConfigFile).
WriteConfig ==
    /\ pc = "writeConfig"
    /\ \E ok \in BOOLEAN :
         IF ok
         THEN /\ tempFile' = [exists |-> TRUE, doc |-> newConfig]
              /\ childConfig' = IF NewConfigFile(erigonConfigPath) = erigonConfigPath
                                THEN newConfig
                                ELSE childConfig
              /\ pc' = "build"
              /\ UNCHANGED <<exitCode, stderr>>
         ELSE /\ Fatal("Error updating config file")
              /\ \E created \in BOOLEAN :
                    /\ tempFile' = [exists |-> created, doc |-> EmptyMap]
                    /\ childConfig' =
                          IF created /\ NewConfigFile(erigonConfigPath) = erigonConfigPath
                          THEN EmptyMap
                          ELSE childConfig
    /\ newConfig' = EmptyMap
    /\ UNCHANGED <<configFile, config, regexPatterns, buildStarted, childStarted,
                   held, ports, keysLeft, cur>>
    /\ UNCHANGED alertVars
    /\ UNCHANGED streamVars
    /\ UNCHANGED envVars
    /\ UNCHANGED concVars
    /\ UNCHANGED childStatus

\* buildCmd.Run()
Build ==
    /\ pc = "build"
    /\ buildStarted' = TRUE
    /\ \E ok \in BOOLEAN :
         IF ok
         THEN pc' = "stdoutPipe" /\ UNCHANGED <<exitCode, stderr>>
         ELSE Fatal("Build failed")
    /\ UNCHANGED <<configFile, config, regexPatterns, tempFile, childStarted>>
    /\ UNCHANGED alertVars
    /\ UNCHANGED portVars
    /\ UNCHANGED streamVars
    /\ UNCHANGED envVars
    /\ UNCHANGED concVars
    /\ UNCHANGED childStatus

\* runCmd.StdoutPipe()
StdoutPipe ==
    /\ pc = "stdoutPipe"
    /\ \E ok \in BOOLEAN :
         IF ok
         THEN pc' = "stderrPipe" /\ UNCHANGED <<exitCode, stderr>>
         ELSE Fatal("Error creating stdout pipe")
    /\ UNCHANGED <<configFile, config, regexPatterns, tempFile, buildStarted, childStarted>>
    /\ UNCHANGED alertVars
    /\ UNCHANGED portVars
    /\ UNCHANGED streamVars
    /\ UNCHANGED envVars
    /\ UNCHANGED concVars
    /\ UNCHANGED childStatus

\* runCmd.StderrPipe()
StderrPipe ==
    /\ pc = "stderrPipe"
    /\ \E ok \in BOOLEAN :
         IF ok
         THEN pc' = "start" /\ UNCHANGED <<exitCode, stderr>>
         ELSE Fatal("Error creating stderr pipe")
    /\ UNCHANGED <<configFile, config, regexPatterns, tempFile, buildStarted, childStarted>>
    /\ UNCHANGED alertVars
    /\ UNCHANGED portVars
    /\ UNCHANGED streamVars
    /\ UNCHANGED envVars
    /\ UNCHANGED concVars
    /\ UNCHANGED childStatus

\* runCmd.Start()
Start ==
    /\ pc = "start"
    /\ \E ok \in BOOLEAN :
         IF ok
         THEN /\ childStarted' = TRUE
              /\ pc' = "scan"
              /\ UNCHANGED <<exitCode, stderr>>
         ELSE /\ Fatal("Error starting cdk-erigon")
              /\ UNCHANGED childStarted
    /\ UNCHANGED <<configFile, config, regexPatterns, tempFile, buildStarted>>
    /\ UNCHANGED alertVars
    /\ UNCHANGED portVars
    /\ UNCHANGED streamVars
    /\ UNCHANGED envVars
    /\ UNCHANGED concVars
    /\ UNCHANGED childStatus

\* a variant in which a dispatch that met a transport error undoes the send record
ManagerAfterUndo(m, match, r, reply) ==
    IF match /\ ~(r.send /\ reply.err) THEN r.am ELSE m

\* the AlertManager at the end of an iteration: as ShouldSendAlert left it,
\* whatever the dispatcher met
ManagerAfter(m, match, r, reply) == IF match THEN r.am ELSE m

\* the body of the scan loop for the line the scanner returned
ScanBody(logLine, d, reply, fault) ==
    LET t == now + d
        found == searchLog(logLine, regexPatterns)
        r == ShouldSendAlert(am, found.pattern, t)
        dispatched == Dispatched(found.match, r.send)
        logged == logToFile(logFile, logLine, fault)
        sent == sendGoogleChatAlert(logLine, r.count, reply)
    IN  /\ now' = t
        /\ received' = received + 1
        /\ logFile' = logged.file
        /\ steps' = steps \o StepsOf(received + 1, found.match, dispatched)
        /\ stdout' = stdout \o <<PrintedLine(logLine)>>
                            \o (IF dispatched THEN sent.stdout ELSE <<>>)
        /\ stderr' = stderr \o logged.stderr
                            \o (IF dispatched THEN sent.stderr ELSE <<>>)
        /\ am' = ManagerAfter(am, found.match, r, reply)
        /\ calls' = IF found.match
                    THEN Append(calls, [key |-> found.pattern, at |-> t,
                                        send |-> r.send, count |-> r.count])
                    ELSE calls
        /\ alerts' = IF dispatched
                     THEN Append(alerts, [log |-> sent.log, count |-> r.count,
                                          suppressed |-> sent.suppressed,
                                          reply |-> reply])
                     ELSE alerts

\* one iteration of the scan loop: scanner.Scan() returned a line
ScanLine ==
    /\ pc = "scan"
    /\ received < MaxLines
    /\ \E logLine \in Lines, d \in env.advances, reply \in env.webhook,
          fault \in env.disk :
         ScanBody(logLine, d, reply, fault)
    /\ UNCHANGED <<pc, exitCode, configFile, config, regexPatterns, tempFile,
                   buildStarted, childStarted>>
    /\ UNCHANGED portVars
    /\ UNCHANGED streamVars
    /\ UNCHANGED envVars
    /\ UNCHANGED concVars
    /\ UNCHANGED childStatus

\* a loop end that treats a read error as fatal and does not wait for the child
ScanEndFatalOnError ==
    /\ pc = "scan"
    /\ \E readError \in BOOLEAN :
         IF readError
         THEN Fatal("Error reading log output")
         ELSE pc' = "wait" /\ UNCHANGED <<exitCode, stderr>>
    /\ UNCHANGED <<configFile, config, regexPatterns, tempFile,
                   buildStarted, childStarted>>
    /\ UNCHANGED alertVars
    /\ UNCHANGED portVars
    /\ UNCHANGED streamVars
    /\ UNCHANGED envVars
    /\ UNCHANGED concVars
    /\ UNCHANGED childStatus

\* scanner.Scan() returned false: end of both streams, or a read error that is
\* reported and otherwise ignored
ScanEnd ==
    /\ pc = "scan"
    /\ \E readError \in BOOLEAN :
         stderr' = IF readError
                   THEN Append(stderr, "Error reading log output")
                   ELSE stderr
    /\ pc' = "wait"
    /\ UNCHANGED <<exitCode, configFile, config, regexPatterns, tempFile,
                   buildStarted, childStarted>>
    /\ UNCHANGED alertVars
    /\ UNCHANGED portVars
    /\ UNCHANGED streamVars
    /\ UNCHANGED envVars
    /\ UNCHANGED concVars
    /\ UNCHANGED childStatus

\* runCmd.Wait(): a non-zero status is fatal; otherwise main returns and the
\* deferred os.Remove(tempConfigFile) runs
Wait ==
    /\ pc = "wait"
    /\ \E status \in ExitStatuses :
         /\ childStatus' = <<status>>
         /\ IF status = 0
            THEN /\ tempFile' = NoTemp
                 /\ pc' = "exited"
                 /\ exitCode' = Exited(0)
                 /\ UNCHANGED stderr
            ELSE /\ Fatal("cdk-erigon finished with error")
                 /\ UNCHANGED tempFile
    /\ UNCHANGED <<configFile, config, regexPatterns, buildStarted, childStarted>>
    /\ UNCHANGED alertVars
    /\ UNCHANGED portVars
    /\ UNCHANGED streamVars
    /\ UNCHANGED envVars
    /\ UNCHANGED concVars

----------------------------------------------------------------------------
(* The child's two output streams, read through io.MultiReader(stdout, stderr) *)

\* the child writes the next piece of its output; the write blocks while the
\* pipe is full
ChildWrite ==
    /\ ~child.exited
    /\ child.pos < Len(script)
    /\ LET w == script[child.pos + 1]
       IN  /\ Len(pipes[w.stream]) < PipeCap
           /\ pipes' = [pipes EXCEPT ![w.stream] = Append(@, w)]
    /\ child' = [child EXCEPT !.pos = @ + 1]
    /\ UNCHANGED <<pc, exitCode, configFile, config, regexPatterns, tempFile,
                   buildStarted, childStarted, stderr, script, reader>>
    /\ UNCHANGED alertVars
    /\ UNCHANGED portVars
    /\ UNCHANGED envVars
    /\ UNCHANGED concVars
    /\ UNCHANGED childStatus

\* the child has written everything and exits, which closes the write ends of
\* both pipes
ChildExit ==
    /\ ~child.exited
    /\ child.pos = Len(script)
    /\ child' = [child EXCEPT !.exited = TRUE]
    /\ UNCHANGED <<pc, exitCode, configFile, config, regexPatterns, tempFile,
                   buildStarted, childStarted, stderr, script, pipes, reader>>
    /\ UNCHANGED alertVars
    /\ UNCHANGED portVars
    /\ UNCHANGED envVars
    /\ UNCHANGED concVars
    /\ UNCHANGED childStatus

\* the current source is at its end: closed by the child and drained
AtEnd(src) == child.exited /\ pipes[src] = <<>>

\* inside scanner.Scan(): the bytes read hold no newline yet, the scanner keeps
\* them and reads on
ScanFill ==
    /\ pc = "scan"
    /\ reader.src \in Streams
    /\ pipes[reader.src] # <<>>
    /\ ~Head(pipes[reader.src]).nl
    /\ reader' = [reader EXCEPT !.carry = @ \o Head(pipes[reader.src]).text]
    /\ pipes' = [pipes EXCEPT ![reader.src] = Tail(@)]
    /\ UNCHANGED <<pc, exitCode, configFile, config, regexPatterns, tempFile,
                   buildStarted, childStarted, stderr, script, child>>
    /\ UNCHANGED alertVars
    /\ UNCHANGED portVars
    /\ UNCHANGED envVars
    /\ UNCHANGED concVars
    /\ UNCHANGED childStatus

\* inside scanner.Scan(): stdout is at its end, io.MultiReader goes on to stderr
\* within the same stream of bytes
NextReader ==
    /\ pc = "scan"
    /\ reader.src = "stdout"
    /\ AtEnd("stdout")
    /\ reader' = [reader EXCEPT !.src = "stderr"]
    /\ UNCHANGED <<pc, exitCode, configFile, config, regexPatterns, tempFile,
                   buildStarted, childStarted, stderr, script, child, pipes>>
    /\ UNCHANGED alertVars
    /\ UNCHANGED portVars
    /\ UNCHANGED envVars
    /\ UNCHANGED concVars
    /\ UNCHANGED childStatus

\* one iteration of the scan loop on the bytes of the pipes: the scanner returns
\* what it has kept plus the bytes up to the next newline, or at the end of
\* stderr what it has kept
ScanStreamLine ==
    /\ pc = "scan"
    /\ reader.src \in Streams
    /\ \E d \in env.advances, reply \in env.webhook, fault \in env.disk :
         \/ /\ pipes[reader.src] # <<>>
            /\ Head(pipes[reader.src]).nl
            /\ ScanBody(reader.carry \o Head(pipes[reader.src]).text, d, reply, fault)
            /\ pipes' = [pipes EXCEPT ![reader.src] = Tail(@)]
            /\ reader' = [reader EXCEPT !.carry = <<>>]
         \/ /\ reader.src = "stderr"
            /\ AtEnd("stderr")
            /\ reader.carry # <<>>
            /\ ScanBody(reader.carry, d, reply, fault)
            /\ pipes' = pipes
            /\ reader' = [src |-> "eof", carry |-> <<>>]
    /\ UNCHANGED <<pc, exitCode, configFile, config, regexPatterns, tempFile,
                   buildStarted, childStarted, script, child>>
    /\ UNCHANGED portVars
    /\ UNCHANGED envVars
    /\ UNCHANGED concVars
    /\ UNCHANGED childStatus

\* scanner.Scan() returned false: both streams are at their end and nothing is
\* kept, or a read failed, which is reported and otherwise ignored
ScanStreamEnd ==
    /\ pc = "scan"
    /\ \/ /\ \/ reader.src = "eof"
             \/ reader.src = "stderr" /\ AtEnd("stderr") /\ reader.carry = <<>>
          /\ reader' = [src |-> "eof", carry |-> <<>>]
          /\ stderr' = stderr
       \/ /\ reader.src \in Streams
          /\ reader' = reader
          /\ stderr' = Append(stderr, "Error reading log output")
    /\ pc' = "wait"
    /\ UNCHANGED <<exitCode, configFile, config, regexPatterns, tempFile,
                   buildStarted, childStarted, script, child, pipes>>
    /\ UNCHANGED alertVars
    /\ UNCHANGED portVars
    /\ UNCHANGED envVars
    /\ UNCHANGED concVars
    /\ UNCHANGED childStatus

----------------------------------------------------------------------------
(* ShouldSendAlert statement by statement, called from several goroutines *)

\* keys the goroutines call ShouldSendAlert with
CallKeys == {<<"a">>, <<"b">>}

\* a lock that lets every caller in
MutexAlwaysFree(m) == TRUE

\* am.mu.Lock() returns only while no goroutine holds the mutex
MutexFree(m) == m = <<>>

\* am.mu.Lock(): goroutine g enters ShouldSendAlert(pattern) and takes the lock
Lock ==
    /\ pc = "scan"
    /\ \E g \in 1 .. Callers, pattern \in CallKeys :
         /\ callers[g].pc = "idle"
         /\ MutexFree(mu)
         /\ mu' = <<g>>
         /\ callers' = [callers EXCEPT ![g] = [@ EXCEPT !.pc = "now", !.key = pattern]]
    /\ UNCHANGED <<pc, exitCode, configFile, config, regexPatterns, tempFile,
                   buildStarted, childStarted, stderr, order, lastRead>>
    /\ UNCHANGED alertVars
    /\ UNCHANGED portVars
    /\ UNCHANGED streamVars
    /\ UNCHANGED envVars
    /\ UNCHANGED childStatus

\* now := time.Now()
ReadClock ==
    /\ \E g \in 1 .. Callers, d \in env.advances :
         /\ callers[g].pc = "now"
         /\ now' = now + d
         /\ callers' = [callers EXCEPT ![g] = [@ EXCEPT !.pc = "check", !.at = now + d]]
         /\ order' = Append(order, [g |-> g, key |-> callers[g].key, at |-> now + d])
    /\ UNCHANGED <<pc, exitCode, configFile, config, regexPatterns, tempFile,
                   buildStarted, childStarted, stderr, mu, lastRead>>
    /\ UNCHANGED <<am, received, logFile, calls, alerts, stdout, steps>>
    /\ UNCHANGED portVars
    /\ UNCHANGED streamVars
    /\ UNCHANGED envVars
    /\ UNCHANGED childStatus

\* the cooldown lookup and the test of the last send
Check ==
    /\ \E g \in 1 .. Callers :
         /\ callers[g].pc = "check"
         /\ LET key == callers[g].key
                cooldown == Cooldown(am, key)
                suppress == /\ key \in DOMAIN am.sentAlerts
                            /\ callers[g].at - am.sentAlerts[key] < cooldown
            IN  callers' = [callers EXCEPT ![g] =
                               [@ EXCEPT !.pc = IF suppress THEN "suppress" ELSE "send"]]
    /\ UNCHANGED <<pc, exitCode, configFile, config, regexPatterns, tempFile,
                   buildStarted, childStarted, stderr, mu, order, lastRead>>
    /\ UNCHANGED alertVars
    /\ UNCHANGED portVars
    /\ UNCHANGED streamVars
    /\ UNCHANGED envVars
    /\ UNCHANGED childStatus

\* am.suppressionCounts[key]++; return false, am.suppressionCounts[key]
Suppress ==
    /\ \E g \in 1 .. Callers :
         /\ callers[g].pc = "suppress"
         /\ LET key == callers[g].key
                count == Get(am.suppressionCounts, key, 0) + 1
            IN  /\ am' = [am EXCEPT !.suppressionCounts = Put(@, key, count)]
                /\ callers' = [callers EXCEPT ![g] =
                                  [@ EXCEPT !.pc = "unlock", !.send = FALSE,
                                            !.count = count]]
    /\ UNCHANGED <<pc, exitCode, configFile, config, regexPatterns, tempFile,
                   buildStarted, childStarted, stderr, mu, order, lastRead>>
    /\ UNCHANGED <<now, received, logFile, calls, alerts, stdout, steps>>
    /\ UNCHANGED portVars
    /\ UNCHANGED streamVars
    /\ UNCHANGED envVars
    /\ UNCHANGED childStatus

\* suppressionCount := am.suppressionCounts[key]; am.sentAlerts[key] = now;
\* am.suppressionCounts[key] = 0; return true, suppressionCount
Send ==
    /\ \E g \in 1 .. Callers :
         /\ callers[g].pc = "send"
         /\ LET key == callers[g].key
                suppressionCount == Get(am.suppressionCounts, key, 0)
            IN  /\ am' = [am EXCEPT !.sentAlerts = Put(@, key, callers[g].at),
                                    !.suppressionCounts = Put(@, key, 0)]
                /\ callers' = [callers EXCEPT ![g] =
                                  [@ EXCEPT !.pc = "unlock", !.send = TRUE,
                                            !.count = suppressionCount]]
    /\ UNCHANGED <<pc, exitCode, configFile, config, regexPatterns, tempFile,
                   buildStarted, childStarted, stderr, mu, order, lastRead>>
    /\ UNCHANGED <<now, received, logFile, calls, alerts, stdout, steps>>
    /\ UNCHANGED portVars
    /\ UNCHANGED streamVars
    /\ UNCHANGED envVars
    /\ UNCHANGED childStatus

\* the deferred am.mu.Unlock(), and the return to the caller
Unlock ==
    /\ \E g \in 1 .. Callers :
         /\ callers[g].pc = "unlock"
         /\ mu' = <<>>
         /\ callers' = [callers EXCEPT ![g] = [@ EXCEPT !.pc = "done"]]
    /\ UNCHANGED <<pc, exitCode, configFile, config, regexPatterns, tempFile,
                   buildStarted, childStarted, stderr, order, lastRead>>
    /\ UNCHANGED alertVars
    /\ UNCHANGED portVars
    /\ UNCHANGED streamVars
    /\ UNCHANGED envVars
    /\ UNCHANGED childStatus

\* a call of GetSuppressionCount(pattern) between two iterations of the scan loop
ReadSuppressionCount ==
    /\ pc = "scan"
    /\ \E pattern \in CallKeys :
         LET r == GetSuppressionCountCall(am, pattern)
         IN  /\ am' = r.am
             /\ lastRead' = <<[key |-> pattern, count |-> r.count]>>
    /\ UNCHANGED <<pc, exitCode, configFile, config, regexPatterns, tempFile,
                   buildStarted, childStarted, stderr, mu, callers, order>>
    /\ UNCHANGED <<now, received, logFile, calls, alerts, stdout, steps>>
    /\ UNCHANGED portVars
    /\ UNCHANGED streamVars
    /\ UNCHANGED envVars
    /\ UNCHANGED childStatus

----------------------------------------------------------------------------
(* The stdin-driven variant, cmd/output_alerts *)

\* its configuration documents: a list of patterns and one cooldown in minutes
StdinCooldowns == {0, 1, 2}
StdinConfigDocs == [patterns : {<<<<"a">>>>, <<<<"b">>, <<"a">>>>},
                    alertCooldownMinutes : {Absent} \cup {Present(c) : c \in StdinCooldowns}]

\* readConfig of the variant: a key that is left out gives 0
readConfigStdin(doc) ==
    [Patterns |-> doc.patterns,
     AlertCooldownMinutes |-> IF doc.alertCooldownMinutes = Absent
                              THEN 0
                              ELSE doc.alertCooldownMinutes[1]]

\* NewAlertManager of the variant: one cooldown for all patterns
NewAlertManagerStdin(cooldown) ==
    [sentAlerts |-> EmptyMap, suppressionCounts |-> EmptyMap, cooldown |-> cooldown]

\* ShouldSendAlert of the variant: it returns send alone
ShouldSendAlertStdin(m, pattern, t) ==
    LET key == pattern
    IN  IF key \in DOMAIN m.sentAlerts /\ t - m.sentAlerts[key] < m.cooldown
        THEN [send |-> FALSE,
              am |-> [m EXCEPT !.suppressionCounts =
                                   Put(@, key, Get(m.suppressionCounts, key, 0) + 1)]]
        ELSE [send |-> TRUE,
              am |-> [m EXCEPT !.sentAlerts = Put(@, key, t),
                               !.suppressionCounts = Put(@, key, 0)]]

\* what the variant prints when a line matched
PrintedMatch(log) == [kind |-> "matchFound", log |-> log, status |-> 0]

\* sendGoogleChatAlert of the variant: it prints the status of every response
sendGoogleChatAlertStdin(log, suppressionCount, reply) ==
    [log |-> log,
     suppressed |-> IF suppressionCount > 0 THEN <<suppressionCount>> ELSE <<>>,
     stderr |-> IF reply.err THEN <<"Error sending alert">> ELSE <<>>,
     stdout |-> IF ~reply.err THEN <<PrintedStatus(reply.status)>> ELSE <<>>]

\* one iteration of the variant's scan loop: ShouldSendAlert, and on send
\* GetSuppressionCount as a second call, whose result goes to the dispatcher
StdinScanLine ==
    /\ pc = "scan"
    /\ received < MaxLines
    /\ \E logLine \in Lines, d \in env.advances, reply \in env.webhook,
          fault \in env.disk :
         LET t == now + d
             found == searchLog(logLine, regexPatterns)
             r == ShouldSendAlertStdin(am, found.pattern, t)
             dispatched == found.match /\ r.send
             got == GetSuppressionCountCall(r.am, found.pattern)
             logged == logToFile(logFile, logLine, fault)
             sent == sendGoogleChatAlertStdin(logLine, got.count, reply)
             k == received + 1
         IN  /\ now' = t
             /\ received' = k
             /\ logFile' = logged.file
             /\ steps' = steps
                   \o <<[line |-> k, op |-> "Println"], [line |-> k, op |-> "logToFile"],
                        [line |-> k, op |-> "searchLog"]>>
                   \o (IF found.match
                       THEN <<[line |-> k, op |-> "ShouldSendAlert"]>> ELSE <<>>)
                   \o (IF dispatched
                       THEN <<[line |-> k, op |-> "GetSuppressionCount"],
                              [line |-> k, op |-> "sendGoogleChatAlert"]>>
                       ELSE <<>>)
             /\ stdout' = stdout \o <<PrintedLine(logLine)>>
                             \o (IF found.match THEN <<PrintedMatch(logLine)>> ELSE <<>>)
                             \o (IF dispatched THEN sent.stdout ELSE <<>>)
             /\ stderr' = stderr \o logged.stderr
                             \o (IF dispatched THEN sent.stderr ELSE <<>>)
             /\ am' = IF ~found.match THEN am
                      ELSE IF dispatched THEN got.am ELSE r.am
             /\ calls' = IF found.match
                         THEN Append(calls, [key |-> found.pattern, at |-> t,
                                             send |-> r.send,
                                             count |-> GetSuppressionCount(r.am, found.pattern)])
                         ELSE calls
             /\ alerts' = IF dispatched
                          THEN Append(alerts, [log |-> sent.log, count |-> got.count,
                                               suppressed |-> sent.suppressed,
                                               reply |-> reply])
                          ELSE alerts
    /\ UNCHANGED <<pc, exitCode, configFile, config, regexPatterns, tempFile,
                   buildStarted, childStarted>>
    /\ UNCHANGED portVars
    /\ UNCHANGED streamVars
    /\ UNCHANGED envVars
    /\ UNCHANGED concVars
    /\ UNCHANGED childStatus

\* standard input ended, or a read failed, which is reported; main returns
StdinScanEnd ==
    /\ pc = "scan"
    /\ \E readError \in BOOLEAN :
         stderr' = IF readError
                   THEN Append(stderr, "Error reading standard input")
                   ELSE stderr
    /\ pc' = "exited"
    /\ exitCode' = Exited(0)
    /\ UNCHANGED <<configFile, config, regexPatterns, tempFile, buildStarted,
                   childStarted>>
    /\ UNCHANGED alertVars
    /\ UNCHANGED portVars
    /\ UNCHANGED streamVars
    /\ UNCHANGED envVars
    /\ UNCHANGED concVars
    /\ UNCHANGED childStatus

----------------------------------------------------------------------------
(* Specifications *)

\* documents of the whole-run specification
MainConfigDocs ==
    {d \in ConfigDocs : Len(d.patterns) = 1 /\ d.patterns[1].pattern = <<"a">>}
MainChildDocs ==
    {(KeyPort :> Str(<<Num(1), Num(2)>>)) @@ (KeyDir :> Str(<<Word>>)),
     (KeyPort :> Str(<<Num(1), Word>>)) @@ (KeyDir :> Str(<<Word>>))}
MainHeldSets == {{}, {1}}

\* what main has not touched yet
Fresh ==
    /\ exitCode = Running
    /\ now = 0
    /\ received = 0
    /\ logFile = <<>>
    /\ calls = <<>>
    /\ alerts = <<>>
    /\ stderr = <<>>
    /\ stdout = <<>>
    /\ steps = <<>>
    /\ childStatus = <<>>
    /\ mu = <<>>
    /\ callers = [g \in 1 .. Callers |-> Idle]
    /\ order = <<>>
    /\ lastRead = <<>>

\* the child's output is not followed below the level of whole lines
NoStreams ==
    /\ script = <<>>
    /\ child = [pos |-> 0, exited |-> FALSE]
    /\ pipes = [stdout |-> <<>>, stderr |-> <<>>]
    /\ reader = [src |-> "stdout", carry |-> <<>>]

\* the whole run of main, from process start
Init ==
    /\ Fresh
    /\ NoStreams
    /\ env = Calm
    /\ erigonConfigPath = <<"c", ".", "y">>
    /\ pc = "readConfig"
    /\ configFile \in MainConfigDocs
    /\ config = NoConfig
    /\ regexPatterns = <<>>
    /\ am = NoManager
    /\ childConfig \in MainChildDocs
    /\ held \in MainHeldSets
    /\ ports = EmptyMap
    /\ keysLeft = {}
    /\ cur = NoCur
    /\ newConfig = EmptyMap
    /\ tempFile = NoTemp
    /\ buildStarted = FALSE
    /\ childStarted = FALSE

Next ==
    \/ ReadConfig
    \/ Setup
    \/ ExtractPorts
    \/ UpdateConfigRead
    \/ NextKey
    \/ NextPort
    \/ Probe
    \/ WriteConfig
    \/ Build
    \/ StdoutPipe
    \/ StderrPipe
    \/ Start
    \/ ScanLine
    \/ ScanEnd
    \/ Wait

Spec == Init /\ [][Next]_vars

\* the scan loop on its own: the state right after runCmd.Start(), for every
\* run configuration
ScanInit ==
    /\ Fresh
    /\ NoStreams
    /\ env = Calm
    /\ erigonConfigPath = <<"c", ".", "y">>
    /\ pc = "scan"
    /\ configFile \in ConfigDocs
    /\ config = readConfig(configFile)
    /\ regexPatterns = CompilePatterns(config)
    /\ am = ManagerOf(config)
    /\ childConfig = EmptyMap
    /\ held = {}
    /\ ports = EmptyMap
    /\ keysLeft = {}
    /\ cur = NoCur
    /\ newConfig = EmptyMap
    /\ tempFile = [exists |-> TRUE, doc |-> EmptyMap]
    /\ buildStarted = TRUE
    /\ childStarted = TRUE

ScanNext == ScanLine

ScanSpec == ScanInit /\ [][ScanNext]_vars

\* port negotiation on its own: the state before extractPorts, for every child
\* document and every set of held ports
PortInit ==
    /\ Fresh
    /\ NoStreams
    /\ env = Calm
    /\ erigonConfigPath \in ChildPaths
    /\ pc = "extractPorts"
    /\ configFile = [patterns |-> <<>>, defaultTimeoutMinutes |-> 1]
    /\ config = readConfig(configFile)
    /\ regexPatterns = CompilePatterns(config)
    /\ am = ManagerOf(config)
    /\ childConfig \in ChildDocs
    /\ held \in HeldSets
    /\ ports = EmptyMap
    /\ keysLeft = {}
    /\ cur = NoCur
    /\ newConfig = EmptyMap
    /\ tempFile = NoTemp
    /\ buildStarted = FALSE
    /\ childStarted = FALSE

\* surroundings in which the webhook may fail in every way
WebhookFaults == [webhook |-> Replies, disk |-> {"ok"}, advances |-> {0, 1}]

\* the scan loop and the end of the run, with a webhook that may fail
DispatchInit ==
    /\ Fresh
    /\ NoStreams
    /\ env = WebhookFaults
    /\ erigonConfigPath = <<"c", ".", "y">>
    /\ pc = "scan"
    /\ configFile \in MainConfigDocs
    /\ config = readConfig(configFile)
    /\ regexPatterns = CompilePatterns(config)
    /\ am = ManagerOf(config)
    /\ childConfig = EmptyMap
    /\ held = {}
    /\ ports = EmptyMap
    /\ keysLeft = {}
    /\ cur = NoCur
    /\ newConfig = EmptyMap
    /\ tempFile = [exists |-> TRUE, doc |-> EmptyMap]
    /\ buildStarted = TRUE
    /\ childStarted = TRUE

DispatchNext ==
    \/ ScanLine
    \/ ScanEnd
    \/ Wait

DispatchSpec == DispatchInit /\ [][DispatchNext]_vars

\* surroundings in which appending to the log file may fail
LogFaults == [webhook |-> {Response(200)}, disk |-> DiskFaults, advances |-> {1}]

\* the scan loop with a log file that may fail to open or to take the write
LogInit ==
    /\ Fresh
    /\ NoStreams
    /\ env = LogFaults
    /\ erigonConfigPath = <<"c", ".", "y">>
    /\ pc = "scan"
    /\ configFile \in MainConfigDocs
    /\ config = readConfig(configFile)
    /\ regexPatterns = CompilePatterns(config)
    /\ am = ManagerOf(config)
    /\ childConfig = EmptyMap
    /\ held = {}
    /\ ports = EmptyMap
    /\ keysLeft = {}
    /\ cur = NoCur
    /\ newConfig = EmptyMap
    /\ tempFile = [exists |-> TRUE, doc |-> EmptyMap]
    /\ buildStarted = TRUE
    /\ childStarted = TRUE

LogNext ==
    \/ ScanLine
    \/ ScanEnd

LogSpec == LogInit /\ [][LogNext]_vars

\* surroundings of the runs that follow the child's output byte by byte
Steady == [webhook |-> {Response(200)}, disk |-> {"ok"}, advances |-> {1}]

\* the scan loop fed by the child's two pipes, for every script of the child
StreamInit ==
    /\ Fresh
    /\ script \in Scripts
    /\ child = [pos |-> 0, exited |-> FALSE]
    /\ pipes = [stdout |-> <<>>, stderr |-> <<>>]
    /\ reader = [src |-> "stdout", carry |-> <<>>]
    /\ env = Steady
    /\ erigonConfigPath = <<"c", ".", "y">>
    /\ pc = "scan"
    /\ configFile = [patterns |-> <<[pattern |-> <<"a">>, timeoutMinutes |-> Present(2)]>>,
                     defaultTimeoutMinutes |-> 1]
    /\ config = readConfig(configFile)
    /\ regexPatterns = CompilePatterns(config)
    /\ am = ManagerOf(config)
    /\ childConfig = EmptyMap
    /\ held = {}
    /\ ports = EmptyMap
    /\ keysLeft = {}
    /\ cur = NoCur
    /\ newConfig = EmptyMap
    /\ tempFile = [exists |-> TRUE, doc |-> EmptyMap]
    /\ buildStarted = TRUE
    /\ childStarted = TRUE

StreamNext ==
    \/ ChildWrite
    \/ ChildExit
    \/ ScanFill
    \/ NextReader
    \/ ScanStreamLine
    \/ ScanStreamEnd

StreamSpec == StreamInit /\ [][StreamNext]_vars

\* surroundings of the concurrent calls: the clock may move between them
Racing == [webhook |-> {Response(200)}, disk |-> {"ok"}, advances |-> {0, 1}]

\* Callers goroutines call ShouldSendAlert once each on a new AlertManager
ConcInit ==
    /\ Fresh
    /\ NoStreams
    /\ env = Racing
    /\ erigonConfigPath = <<"c", ".", "y">>
    /\ pc = "scan"
    /\ configFile \in MainConfigDocs
    /\ config = readConfig(configFile)
    /\ regexPatterns = CompilePatterns(config)
    /\ am = ManagerOf(config)
    /\ childConfig = EmptyMap
    /\ held = {}
    /\ ports = EmptyMap
    /\ keysLeft = {}
    /\ cur = NoCur
    /\ newConfig = EmptyMap
    /\ tempFile = [exists |-> TRUE, doc |-> EmptyMap]
    /\ buildStarted = TRUE
    /\ childStarted = TRUE

ConcNext ==
    \/ Lock
    \/ ReadClock
    \/ Check
    \/ Suppress
    \/ Send
    \/ Unlock

ConcSpec == ConcInit /\ [][ConcNext]_vars

\* the scan loop with calls of the accessor between its iterations
AccessorInit ==
    /\ Fresh
    /\ NoStreams
    /\ env = Racing
    /\ erigonConfigPath = <<"c", ".", "y">>
    /\ pc = "scan"
    /\ configFile \in MainConfigDocs
    /\ config = readConfig(configFile)
    /\ regexPatterns = CompilePatterns(config)
    /\ am = ManagerOf(config)
    /\ childConfig = EmptyMap
    /\ held = {}
    /\ ports = EmptyMap
    /\ keysLeft = {}
    /\ cur = NoCur
    /\ newConfig = EmptyMap
    /\ tempFile = [exists |-> TRUE, doc |-> EmptyMap]
    /\ buildStarted = TRUE
    /\ childStarted = TRUE

AccessorNext ==
    \/ ScanLine
    \/ ReadSuppressionCount

AccessorSpec == AccessorInit /\ [][AccessorNext]_vars

\* the variant's scan loop from its first line, for each of its configurations
StdinInit ==
    /\ Fresh
    /\ NoStreams
    /\ env = Racing
    /\ erigonConfigPath = <<>>
    /\ pc = "scan"
    /\ configFile \in StdinConfigDocs
    /\ config = readConfigStdin(configFile)
    /\ regexPatterns = config.Patterns
    /\ am = NewAlertManagerStdin(config.AlertCooldownMinutes)
    /\ childConfig = EmptyMap
    /\ held = {}
    /\ ports = EmptyMap
    /\ keysLeft = {}
    /\ cur = NoCur
    /\ newConfig = EmptyMap
    /\ tempFile = NoTemp
    /\ buildStarted = FALSE
    /\ childStarted = FALSE

StdinNext ==
    \/ StdinScanLine
    \/ StdinScanEnd

StdinSpec == StdinInit /\ [][StdinNext]_vars

PortNext ==
    \/ ExtractPorts
    \/ UpdateConfigRead
    \/ NextKey
    \/ NextPort
    \/ Probe
    \/ WriteConfig

PortSpec == PortInit /\ [][PortNext]_vars

\* the same, with the probe loop running on as long as it has a round to run
PortLiveSpec == PortInit /\ [][PortNext]_vars /\ WF_vars(Probe)

----------------------------------------------------------------------------
(* Properties of the Alert Manager and the Classifier, checked on ScanSpec *)

\* the ShouldSendAlert calls made for key P, in call order
KeyCalls(P) == SelectSeq(calls, LAMBDA c : c.key = P)

\* a step in which the scan loop called ShouldSendAlert
Called == Len(calls') = Len(calls) + 1
LastCall == calls'[Len(calls')]

\* C2: for a key with cooldown C, when the first N matches all arrive less than C
\* after the first, only the first of them is sent and it reports 0 suppressions;
\* the next match, arriving once C has elapsed since the first, is sent and
\* reports N-1.
C2_OneAlertPerWindow ==
    \A P \in PatternTexts :
        LET s == KeyCalls(P)
            C == Cooldown(am, P)
        IN  \A N \in 1 .. Len(s) :
                (\A i \in 1 .. N : s[i].at - s[1].at < C)
                => /\ s[1].send
                   /\ s[1].count = 0
                   /\ \A i \in 2 .. N : ~s[i].send
                   /\ (N < Len(s) /\ s[N + 1].at - s[1].at >= C)
                        => (s[N + 1].send /\ s[N + 1].count = N - 1)

C2_Witness ==
    \E P \in PatternTexts :
        LET s == KeyCalls(P)
            C == Cooldown(am, P)
        IN  /\ Len(s) = 3
            /\ s[2].at - s[1].at < C
            /\ s[3].at - s[1].at >= C
            /\ s[3].send
            /\ s[3].count = 1

\* every configuration entry of P has timeoutMinutes = 0
ZeroTimeout(P) ==
    /\ \E i \in 1 .. Len(config.Patterns) : config.Patterns[i].Pattern = P
    /\ \A i \in 1 .. Len(config.Patterns) :
           config.Patterns[i].Pattern = P => config.Patterns[i].TimeoutMinutes = 0

\* C3 as stated: a pattern configured with timeoutMinutes = 0 is sent at most
\* once, however far the clock advances.
C3_NeverAgain ==
    \A P \in PatternTexts :
        ZeroTimeout(P) =>
            Cardinality({i \in 1 .. Len(KeyCalls(P)) : KeyCalls(P)[i].send}) <= 1

\* C3 amended: after a send for a pattern configured with timeoutMinutes = 0, no
\* match of it arriving less than 100 years (NeverCooldown) after that send is
\* sent; each such match is counted as suppressed.
C3_NeverWithinHundredYears ==
    \A P \in PatternTexts :
        ZeroTimeout(P) =>
            LET s == KeyCalls(P)
            IN  \A i \in 1 .. Len(s) : \A j \in (i + 1) .. Len(s) :
                    (s[i].send /\ s[j].at - s[i].at < NeverCooldown)
                    => (~s[j].send /\ s[j].count = j - i)

C3_Witness ==
    \E P \in PatternTexts :
        /\ ZeroTimeout(P)
        /\ Len(KeyCalls(P)) = 3
        /\ KeyCalls(P)[1].send
        /\ KeyCalls(P)[3].at > KeyCalls(P)[1].at
        /\ ~KeyCalls(P)[3].send
        /\ KeyCalls(P)[3].count = 2

\* main has built the AlertManager
ManagerBuilt ==
    /\ pc \notin {"readConfig", "setup"}
    /\ Len(regexPatterns) = Len(configFile.patterns)

\* C4 as stated: a rule whose entry leaves timeoutMinutes out gets the default
\* cooldown; a rule with a configured value gets that value.
C4_DefaultWhenAbsent ==
    \A i \in 1 .. Len(configFile.patterns) :
        LET r == configFile.patterns[i]
            last == \A j \in (i + 1) .. Len(configFile.patterns) :
                        configFile.patterns[j].pattern # r.pattern
        IN  (ManagerBuilt /\ last) =>
                Cooldown(am, r.pattern) =
                    IF r.timeoutMinutes = Absent
                    THEN config.DefaultTimeoutMinutes
                    ELSE RuleCooldown(UnmarshalRule(r))

\* C5: a match at T for P is sent iff P has no recorded send or
\* T - lastSentAt(P) >= cooldown(P); a sent match records lastSentAt(P) = T,
\* returns the count P had before the call and leaves the count at 0.
C5_SendRule ==
    [][Called =>
        LET P == LastCall.key
            T == LastCall.at
        IN  /\ LastCall.send <=>
                 (\/ P \notin DOMAIN am.sentAlerts
                  \/ T - am.sentAlerts[P] >= Cooldown(am, P))
            /\ LastCall.send =>
                 /\ am'.sentAlerts[P] = T
                 /\ LastCall.count = Get(am.suppressionCounts, P, 0)
                 /\ am'.suppressionCounts[P] = 0]_vars

\* a send exactly at the cooldown boundary, reporting a positive count
C5_Witness ==
    \E i \in 1 .. Len(calls) : \E j \in (i + 1) .. Len(calls) :
        /\ calls[i].key = calls[j].key
        /\ calls[i].send /\ calls[j].send
        /\ calls[j].at - calls[i].at = Cooldown(am, calls[i].key)
        /\ calls[j].count > 0
        /\ am.sentAlerts[calls[j].key] = calls[j].at

\* C6: a match at T for P with a recorded send and T - lastSentAt(P) < cooldown(P)
\* is not sent, returns the incremented count, adds exactly 1 to the count of P
\* and leaves lastSentAt(P) as it was.
C6_SuppressRule ==
    [][Called =>
        LET P == LastCall.key
            T == LastCall.at
        IN  (P \in DOMAIN am.sentAlerts /\ T - am.sentAlerts[P] < Cooldown(am, P))
            => /\ ~LastCall.send
               /\ am'.suppressionCounts[P] = am.suppressionCounts[P] + 1
               /\ LastCall.count = am'.suppressionCounts[P]
               /\ am'.sentAlerts[P] = am.sentAlerts[P]]_vars

\* two suppressed matches in a row, the second later than the send
C6_Witness ==
    \E i \in 1 .. Len(calls) :
        /\ ~calls[i].send
        /\ calls[i].count = 2
        /\ am.sentAlerts[calls[i].key] < calls[i].at
        /\ am.suppressionCounts[calls[i].key] = 2

\* C7: every suppression count is a natural number; in a step it becomes 0 when
\* an alert is sent for its key, grows by one when a match of its key is
\* suppressed, and is unchanged otherwise; lastSentAt of a key never decreases
\* and a recorded send is never forgotten.
C7_CountsAndTimes ==
    [][/\ \A k \in DOMAIN am'.suppressionCounts : am'.suppressionCounts[k] \in Nat
       /\ DOMAIN am.sentAlerts \subseteq DOMAIN am'.sentAlerts
       /\ \A k \in DOMAIN am.sentAlerts : am'.sentAlerts[k] >= am.sentAlerts[k]
       /\ \A k \in PatternTexts :
            LET old == Get(am.suppressionCounts, k, 0)
                new == Get(am'.suppressionCounts, k, 0)
                sent == Called /\ LastCall.key = k /\ LastCall.send
                suppressed == Called /\ LastCall.key = k /\ ~LastCall.send
            IN  /\ sent => new = 0
                /\ suppressed => new = old + 1
                /\ (~sent /\ ~suppressed) => new = old
                /\ new < old => (sent /\ new = 0)]_vars

\* a count that had grown to 1 was reset by a send
C7_Witness ==
    \E i \in 1 .. Len(calls) :
        /\ calls[i].send
        /\ calls[i].count = 1
        /\ am.suppressionCounts[calls[i].key] = 0

\* indices of the rules that match a line
Matching(log, patterns) == {i \in 1 .. Len(patterns) : Contains(log, patterns[i])}
Least(S) == CHOOSE i \in S : \A j \in S : i <= j

\* C8: for every line the classifier returns the matching rule of least index,
\* and no match exactly when no rule matches; the returned pattern is the key
\* handed to ShouldSendAlert.
C8_FirstMatchWins ==
    [][received' = received + 1 =>
        LET logLine == logFile'[Len(logFile')]
            M == Matching(logLine, regexPatterns)
        IN  IF M = {}
            THEN calls' = calls
            ELSE Called /\ LastCall.key = regexPatterns[Least(M)]]_vars

\* a line matching two different rules was classified as the earlier one
C8_Witness ==
    /\ Len(regexPatterns) = 2
    /\ regexPatterns[1] # regexPatterns[2]
    /\ Len(logFile) > 0
    /\ Matching(logFile[Len(logFile)], regexPatterns) = {1, 2}
    /\ Len(calls) > 0
    /\ calls[Len(calls)].key = regexPatterns[1]

----------------------------------------------------------------------------
(* Properties of the run of main, checked on Spec *)

SetupErrors ==
    {"Error reading config file",
     "Error extracting ports from config file",
     "Error updating config file"}

SetupFailed == \E i \in 1 .. Len(stderr) : stderr[i] \in SetupErrors

\* C1: when a run in which the rewritten configuration file was written has
\* ended, on whatever path (child exit zero or non-zero, build, pipe or spawn
\* failure, read error), the file does not exist.
C1_TempFileRemoved == (pc = "exited" /\ ~SetupFailed) => ~tempFile.exists

\* what holds of the code: the file is removed when main returns after the child
\* exited with status zero, and is left behind by every log.Fatalf
TempFileRemovedOnReturn ==
    (pc = "exited" /\ exitCode = Exited(0)) => ~tempFile.exists

\* the build and the child start only after every set-up step succeeded
ChildAfterSetup ==
    (buildStarted \/ childStarted) =>
        /\ ~SetupFailed
        /\ config = readConfig(configFile)
        /\ ports = extractPorts(childConfig)
        /\ pc \in {"build", "stdoutPipe", "stderrPipe", "start", "scan", "wait", "exited"}

\* C9: the build and the child start only after the run configuration was read,
\* the child configuration was read and the rewritten configuration was
\* written; a run in which one of these steps fails never starts them and ends
\* as a fatal abort (a non-zero exit status).
C9_SetupFailureIsFatal ==
    /\ ChildAfterSetup
    /\ SetupFailed =>
         /\ ~buildStarted
         /\ ~childStarted
         /\ pc = "exited"
         /\ exitCode # Exited(0)

----------------------------------------------------------------------------
(* Properties of the Port Negotiator, checked on PortSpec *)

\* C10: the port negotiated for a declared port p is the smallest q >= p on
\* which a listener can be bound: p itself when p is free, otherwise the
\* smallest free port above p.
C10_SmallestFreePort ==
    \A i \in 1 .. Len(cur.newPortList) :
        LET p == ports[cur.key][i].n
            q == cur.newPortList[i]
        IN  /\ q >= p
            /\ Listen(q, held)
            /\ \A r \in p .. (q - 1) : ~Listen(r, held)
            /\ Listen(p, held) => q = p

\* a declared port that is held, with the next one held as well
C10_Witness ==
    /\ Len(cur.newPortList) >= 1
    /\ ports[cur.key][1].n \in held
    /\ cur.newPortList[1] = ports[cur.key][1].n + 2

\* the port findAvailablePort settles on for p: a function of p and of the held
\* ports alone
Negotiated(p, heldPorts) ==
    CHOOSE q \in p .. (PortSpan + ProbeSlack + 1) :
        /\ Listen(q, heldPorts)
        /\ \A r \in p .. (q - 1) : ~Listen(r, heldPorts)

\* the rewritten document is on disk and main goes on to the build
Rewritten == pc = "build" /\ tempFile.exists

\* C11: in the rewritten document every key of the port map has as many entries
\* as the original value lists, and its i-th entry is the port negotiated for the
\* i-th original entry, whatever other keys exist and in whatever order the keys
\* were processed.
C11_EntryWiseInOrder ==
    Rewritten =>
        \A k \in DOMAIN ports :
            /\ tempFile.doc[k].kind = "string"
            /\ Len(tempFile.doc[k].fields) = Len(ports[k])
            /\ \A i \in 1 .. Len(ports[k]) :
                   tempFile.doc[k].fields[i] = Num(Negotiated(ports[k][i].n, held))

\* a two-entry list whose negotiated ports are written back in declared, not
\* ascending, order, the first of them moved off a held port
C11_Witness ==
    /\ Rewritten
    /\ \E k \in DOMAIN ports :
          /\ Len(ports[k]) = 2
          /\ ports[k][1].n \in held
          /\ tempFile.doc[k].fields[1].n > ports[k][1].n
          /\ tempFile.doc[k].fields[1].n > tempFile.doc[k].fields[2].n

----------------------------------------------------------------------------
(* Properties of the Dispatcher and the scan loop *)

\* a reply that is not a delivery: a transport error or a status outside 200..299
Failed(reply) == reply.err \/ reply.status < 200 \/ reply.status > 299

\* this step called the dispatcher
DispatchedNow == Len(alerts') > Len(alerts)
LastAlert == alerts'[Len(alerts')]

\* C12: a dispatch whose webhook call failed is made once, leaves main in the
\* scan loop with no exit status, and leaves the AlertManager with exactly the
\* record a send leaves (last send = now, count 0); a later match of the same
\* pattern at or after the cooldown is sent and dispatched again.
C12_FailedDispatchChangesNothing ==
    [][/\ (DispatchedNow /\ Failed(LastAlert.reply)) =>
            /\ Len(alerts') = Len(alerts) + 1
            /\ pc' = "scan" /\ exitCode' = Running
            /\ am' = ShouldSendAlert(am, LastCall.key, now').am
            /\ am'.sentAlerts[LastCall.key] = now'
            /\ am'.suppressionCounts[LastCall.key] = 0
       /\ (/\ Called
           /\ LastCall.key \in DOMAIN am.sentAlerts
           /\ LastCall.at - am.sentAlerts[LastCall.key] >= Cooldown(am, LastCall.key)) =>
            /\ LastCall.send
            /\ DispatchedNow
            /\ LastAlert.count = LastCall.count]_vars

\* a dispatch that met a transport error, then a suppressed match, then at the
\* cooldown a dispatch of the same pattern that reports the suppressed match
C12_Witness ==
    /\ pc = "scan"
    /\ Len(alerts) = 2
    /\ alerts[1].reply.err
    /\ alerts[2].count = 1
    /\ Len(calls) = 3
    /\ calls[1].key = calls[3].key

\* C13: a dispatch writes a failure record on stderr exactly when the webhook's
\* reply is not a status in 200..299 (a transport error, a status below 200, a
\* status above 299), and in every case returns to the scan loop.
C13_FailureRecordOnStderr ==
    [][DispatchedNow =>
        /\ pc' = "scan" /\ exitCode' = Running
        /\ IF Failed(LastAlert.reply)
           THEN Len(stderr') = Len(stderr) + 1
           ELSE stderr' = stderr]_vars

\* this step processed a line
LineNow == received' = received + 1
\* the line this step processed, as main echoed it
LastLine == (SelectSeq(stdout', LAMBDA e : e.kind = "line"))[received'].log
\* the calls this step added to the record, and the stages among them
NewSteps == SubSeq(steps', Len(steps) + 1, Len(steps'))
Stages == {"logToFile", "searchLog", "ShouldSendAlert", "sendGoogleChatAlert"}
NewStages == SelectSeq(NewSteps, LAMBDA e : e.op \in Stages)

\* the stages of one line run in the order logger, classifier, AlertManager (on
\* a match), dispatcher (on a send), all for the line just received, and nothing
\* of another line lies between them
StagesInOrder ==
    /\ \A i \in 1 .. Len(NewSteps) : NewSteps[i].line = received'
    /\ NewStages = [i \in 1 .. Len(NewStages) |-> [line |-> received', op |-> NewStages[i].op]]
    /\ [i \in 1 .. Len(NewStages) |-> NewStages[i].op] =
          <<"logToFile", "searchLog">>
          \o (IF Called THEN <<"ShouldSendAlert">> ELSE <<>>)
          \o (IF DispatchedNow THEN <<"sendGoogleChatAlert">> ELSE <<>>)
    /\ DispatchedNow => Called

\* C14: every received line goes through logger, classifier, AlertManager and
\* dispatcher in that order before the next line is touched, and every received
\* line is appended to the log.
C14_EveryLineLogged ==
    [][LineNow => (StagesInOrder /\ logFile' = Append(logFile, LastLine))]_vars

\* C14, amended: the stages run in that order, one line at a time; a line is
\* appended to the log unless opening or writing the log file fails, and then an
\* error is reported on stderr and the log is left as it was.
C14_LoggedUnlessFileFails ==
    [][LineNow =>
        /\ StagesInOrder
        /\ IF stderr' = stderr
           THEN logFile' = Append(logFile, LastLine)
           ELSE /\ logFile' = logFile
                /\ stderr'[Len(stderr')] \in {"Error opening file", "Error writing to file"}]_vars

\* three lines received, one of the first two lost to a failed open, the third
\* logged, matched and dispatched
C14_Witness ==
    /\ received = 3
    /\ Len(logFile) = 2
    /\ stderr = <<"Error opening file">>
    /\ Len(alerts) >= 1
    /\ alerts[Len(alerts)].log = logFile[2]
    /\ steps[Len(steps)] = [line |-> 3, op |-> "sendGoogleChatAlert"]

\* C15: the dispatcher is called exactly once for a line whose match returned
\* send = true, with that line and the count that call returned, and not at all
\* for a line that matched nothing or whose match returned send = false.
C15_OneDispatchPerSend ==
    [][LineNow =>
        IF Called /\ LastCall.send
        THEN /\ alerts' = Append(alerts, LastAlert)
             /\ LastAlert.log = LastLine
             /\ LastAlert.count = LastCall.count
        ELSE alerts' = alerts]_vars

\* a cooldown longer than a minute and matches at minutes 0 and 1: two calls of
\* ShouldSendAlert, one dispatch, reporting count 0
C15_Witness ==
    /\ Len(calls) = 2
    /\ calls[1].key = calls[2].key
    /\ Cooldown(am, calls[1].key) > 1
    /\ calls[1].at = 0 /\ calls[2].at = 1
    /\ calls[1].send /\ ~calls[2].send
    /\ Len(alerts) = 1
    /\ alerts[1].count = 0

----------------------------------------------------------------------------
(* Properties of the merged stream, checked on StreamSpec *)

\* the pieces the script writes on one stream, and their split into lines
WritesOn(stream) == SelectSeq(script, LAMBDA w : w.stream = stream)
RECURSIVE SplitLines(_, _, _, _)
SplitLines(ws, i, carry, acc) ==
    IF i > Len(ws)
    THEN IF carry = <<>> THEN acc ELSE Append(acc, carry)
    ELSE IF ws[i].nl
         THEN SplitLines(ws, i + 1, <<>>, Append(acc, carry \o ws[i].text))
         ELSE SplitLines(ws, i + 1, carry \o ws[i].text, acc)
LinesOn(stream) == SplitLines(WritesOn(stream), 1, <<>>, <<>>)

\* the lines the scan loop has received, in order
Merged ==
    LET echoed == SelectSeq(stdout, LAMBDA e : e.kind = "line")
    IN  [i \in 1 .. Len(echoed) |-> echoed[i].log]

\* m is an interleaving of a and b that keeps the order of each
RECURSIVE IsShuffle(_, _, _)
IsShuffle(m, a, b) ==
    IF m = <<>>
    THEN a = <<>> /\ b = <<>>
    ELSE \/ a # <<>> /\ Head(a) = Head(m) /\ IsShuffle(Tail(m), Tail(a), b)
         \/ b # <<>> /\ Head(b) = Head(m) /\ IsShuffle(Tail(m), a, Tail(b))

\* the scan loop ended because both streams ended
EndOfStreams == pc = "wait" /\ reader.src = "eof"

\* C16: the received lines are an interleaving of the lines of stdout and the
\* lines of stderr that keeps the order of each stream: while the loop runs, of
\* the lines read so far; once both streams have ended, of all lines, each once.
C16_MergeKeepsStreamLines ==
    /\ \E i \in 0 .. Len(LinesOn("stdout")), j \in 0 .. Len(LinesOn("stderr")) :
          IsShuffle(Merged, SubSeq(LinesOn("stdout"), 1, i),
                            SubSeq(LinesOn("stderr"), 1, j))
    /\ EndOfStreams => IsShuffle(Merged, LinesOn("stdout"), LinesOn("stderr"))

\* the same for a child whose stdout output ends with a newline
StdoutEndsWithNewline ==
    WritesOn("stdout") = <<>> \/ WritesOn("stdout")[Len(WritesOn("stdout"))].nl
WholeLinesMerged == StdoutEndsWithNewline => C16_MergeKeepsStreamLines

----------------------------------------------------------------------------
(* Properties of the end of the run, checked on DispatchSpec *)

\* C17: main collects the child's exit status only after the scan loop has
\* ended, and always does before it exits, also when the loop ended on a read
\* error; after the loop no line is processed; the run ends with exit status 1
\* exactly when the child's status is non-zero and with 0 when it is zero.
C17_WaitAfterScan ==
    [][/\ pc' = "wait" => pc = "scan"
       /\ childStatus' # childStatus => (pc = "wait" /\ pc' = "exited")
       /\ pc # "scan" => (received' = received /\ alerts' = alerts)
       /\ pc' = "exited" =>
            /\ childStatus' # <<>>
            /\ exitCode' = Exited(1) <=> childStatus'[1] # 0
            /\ exitCode' = Exited(0) <=> childStatus'[1] = 0]_vars

\* a loop ended by a read error after a line, the child waited for all the
\* same, and a normal end on its status 0
C17_Witness ==
    /\ pc = "exited"
    /\ received >= 1
    /\ stderr = <<"Error reading log output">>
    /\ childStatus = <<0>>
    /\ exitCode = Exited(0)

----------------------------------------------------------------------------
(* Frame of the port negotiation, checked on PortSpec *)

\* a key the negotiation is meant to rewrite: its name contains "port" and its
\* value is a string of comma-separated integers
PortBearing(doc, k) ==
    /\ PortKey(k)
    /\ doc[k].kind = "string"
    /\ \A i \in 1 .. Len(doc[k].fields) : doc[k].fields[i].num

\* C18: no step of the negotiation changes the original file; the rewritten
\* document goes to another path, the original name with a suffix put before its
\* extension; it has the keys of the original, and every key that is not
\* port-bearing has the value it has in the original.
C18_OriginalUntouched ==
    [][/\ childConfig' = childConfig
       /\ LET new == NewConfigFile(erigonConfigPath)
              ext == Ext(erigonConfigPath)
          IN  /\ new # erigonConfigPath
              /\ Len(new) > Len(erigonConfigPath)
              /\ SubSeq(new, Len(new) - Len(ext) + 1, Len(new)) = ext
              /\ SubSeq(new, 1, Len(erigonConfigPath) - Len(ext)) =
                    SubSeq(erigonConfigPath, 1, Len(erigonConfigPath) - Len(ext))
       /\ (Rewritten' /\ ~Rewritten) =>
            /\ DOMAIN tempFile'.doc = DOMAIN childConfig
            /\ \A k \in DOMAIN childConfig :
                   ~PortBearing(childConfig, k) => tempFile'.doc[k] = childConfig[k]]_vars

\* a rewritten document in which a port list differs from the original and the
\* directory key does not, for a file name with an extension
C18_Witness ==
    /\ Rewritten
    /\ Ext(erigonConfigPath) # <<>>
    /\ KeyPort \in DOMAIN childConfig /\ KeyDir \in DOMAIN childConfig
    /\ PortBearing(childConfig, KeyPort)
    /\ tempFile.doc[KeyPort] # childConfig[KeyPort]
    /\ tempFile.doc[KeyDir] = childConfig[KeyDir]

\* updateConfig returned the error of strconv.Atoi, and main ended the run on it
AtoiFailed == pc = "exited" /\ cur # NoCur

\* C19: a key whose name contains "port" but whose string value is not a list of
\* integers does not make the negotiation fail, and it reaches the rewritten
\* document with the value it had, as every key that is not port-bearing does.
C19_NonIntegerValuePassesThrough ==
    /\ ~AtoiFailed
    /\ Rewritten =>
          \A k \in DOMAIN childConfig :
              ~PortBearing(childConfig, k) =>
                  (k \in DOMAIN tempFile.doc /\ tempFile.doc[k] = childConfig[k])

----------------------------------------------------------------------------
(* Termination of findAvailablePort, checked on PortLiveSpec *)

\* some port at or above p can be bound
HasFree(p) == \E q \in p .. PortSpan : Listen(q, held)

\* C20: findAvailablePort returns if and only if some port at or above the one
\* it is at can be bound.  With such a port the loop returns; with none, also
\* once the counter is past the largest valid port, it stays in the loop for
\* ever, reports nothing, and the run never gets to the build or the child.
C20_ReturnsIffSomePortFree ==
    /\ [][(pc = "probe" /\ ~HasFree(cur.port)) =>
            /\ pc' = "probe"
            /\ ~HasFree(cur'.port)
            /\ Len(cur'.newPortList) = Len(cur.newPortList)
            /\ stderr' = stderr /\ exitCode' = Running
            /\ ~buildStarted' /\ ~childStarted']_vars
    /\ (pc = "probe" /\ HasFree(cur.port)) ~> (pc = "nextPort")

\* every valid port is held: the loop started at a valid port and is past the
\* largest one, still probing
C20_Witness ==
    /\ pc = "probe"
    /\ held = 1 .. PortSpan
    /\ ports[cur.key][cur.idx].n \in 1 .. PortSpan
    /\ cur.port > PortSpan + 1
    /\ ~HasFree(cur.port)

----------------------------------------------------------------------------
(* Properties of concurrent ShouldSendAlert calls, checked on ConcSpec *)

\* the calls of ord made one after the other on manager m: the results in order
\* and the manager afterwards
RECURSIVE Replay(_, _, _)
Replay(m, ord, i) ==
    IF i > Len(ord)
    THEN [am |-> m, results |-> <<>>]
    ELSE LET r == ShouldSendAlert(m, ord[i].key, ord[i].at)
             rest == Replay(r.am, ord, i + 1)
         IN  [am |-> rest.am,
              results |-> <<[send |-> r.send, count |-> r.count]>> \o rest.results]

AllDone == \A g \in 1 .. Callers : callers[g].pc = "done"
\* every call is for the same key and read a time inside the cooldown that the
\* first of them started
SameKeyInCooldown ==
    /\ \A g \in 1 .. Callers : callers[g].key = callers[1].key
    /\ \A g, h \in 1 .. Callers :
          callers[g].at - callers[h].at < Cooldown(am, callers[1].key)

\* C21: the results of concurrent calls are those of the calls made one after
\* the other in the order they took the lock, and so is the manager once the
\* lock is free; of k concurrent calls for one key with no prior send exactly one
\* returns send = true, the others return send = false with the counts 1 .. k-1,
\* and the count left behind is k-1.
C21_CallsAreSerialized ==
    LET seq == Replay(ManagerOf(config), order, 1)
    IN  /\ \A i \in 1 .. Len(order) :
              callers[order[i].g].pc = "done" =>
                  /\ callers[order[i].g].send = seq.results[i].send
                  /\ callers[order[i].g].count = seq.results[i].count
        /\ mu = <<>> => am = seq.am
        /\ (AllDone /\ SameKeyInCooldown) =>
              /\ Cardinality({g \in 1 .. Callers : callers[g].send}) = 1
              /\ {callers[g].count : g \in {h \in 1 .. Callers : ~callers[h].send}}
                    = 1 .. (Callers - 1)
              /\ am.suppressionCounts[callers[1].key] = Callers - 1

\* all callers have returned from calls for one key inside one cooldown, and
\* goroutine 1 took the lock last and was told the highest count
C21_Witness ==
    /\ AllDone
    /\ SameKeyInCooldown
    /\ ~callers[1].send
    /\ callers[1].count = Callers - 1
    /\ order[Len(order)].g = 1

----------------------------------------------------------------------------
(* Properties of GetSuppressionCount, checked on AccessorSpec *)

\* this step was a call of the accessor that returned something new
ReadNow == lastRead' # lastRead

\* the results of the ShouldSendAlert calls so far are those the same calls give
\* with no accessor call between them
ResultsAsWithoutReads ==
    LET seq == Replay(ManagerOf(config), calls, 1)
    IN  /\ \A i \in 1 .. Len(calls) :
              /\ calls[i].send = seq.results[i].send
              /\ calls[i].count = seq.results[i].count
        /\ am = seq.am

\* C22: GetSuppressionCount(P) returns the count of P, 0 for a key without an
\* entry, and leaves the AlertManager as it was, with no new entry; the results
\* of all ShouldSendAlert calls are those of the run with the accessor calls
\* left out.
C22_AccessorReadsOnly ==
    /\ [][ReadNow =>
            LET P == lastRead'[1].key
            IN  /\ lastRead'[1].count = IF P \in DOMAIN am.suppressionCounts
                                        THEN am.suppressionCounts[P]
                                        ELSE 0
                /\ am' = am
                /\ DOMAIN am'.suppressionCounts = DOMAIN am.suppressionCounts
                /\ DOMAIN am'.sentAlerts = DOMAIN am.sentAlerts]_vars
    /\ []ResultsAsWithoutReads

\* the accessor returned 1 for a cooling pattern, and the next send of that
\* pattern reported that 1
C22_Witness ==
    /\ Len(calls) = 3
    /\ lastRead # <<>>
    /\ lastRead[1].key = calls[3].key
    /\ lastRead[1].count = 1
    /\ calls[3].send /\ calls[3].count = 1
    /\ am.suppressionCounts[calls[3].key] = 0

\* the accessor returned 0 for a key that has never matched and made no entry
ReadOfUnmatchedKey ==
    /\ lastRead # <<>>
    /\ lastRead[1].count = 0
    /\ lastRead[1].key \notin DOMAIN am.suppressionCounts
    /\ Len(calls) >= 1

----------------------------------------------------------------------------
(* Properties of the stdin-driven variant, checked on StdinSpec *)

\* the matches of P that were suppressed since the last send of P
SuppressedSinceLastSend(P) ==
    Cardinality({j \in 1 .. Len(calls) :
                    /\ calls[j].key = P
                    /\ ~calls[j].send
                    /\ \A k \in (j + 1) .. Len(calls) :
                           ~(calls[k].key = P /\ calls[k].send)})

\* C23: in the stdin-driven variant the count passed to the dispatcher with a
\* sent alert is the number of matches of that pattern that were suppressed
\* since the pattern's previous sent alert.
C23_StdinReportsSuppressed ==
    [][DispatchedNow => LastAlert.count = SuppressedSinceLastSend(LastCall.key)]_vars

----------------------------------------------------------------------------
(* Progress of the child and the scan loop, checked on StreamSpec *)

\* the child's next write is to a pipe that is full
ChildBlockedOn(stream) ==
    /\ ~child.exited
    /\ child.pos < Len(script)
    /\ script[child.pos + 1].stream = stream
    /\ Len(pipes[stream]) >= PipeCap

\* the scanner's read waits for bytes of a pipe that is empty and still open
ReaderBlockedOn(stream) ==
    /\ pc = "scan"
    /\ reader.src = stream
    /\ pipes[stream] = <<>>
    /\ ~child.exited

\* C24: the child is never blocked writing to one stream while the scan loop is
\* blocked reading the other, so every written line is processed and the run gets
\* to runCmd.Wait().
C24_NoPipeDeadlock ==
    \A s \in Streams, t \in Streams :
        s # t => ~(ChildBlockedOn(s) /\ ReaderBlockedOn(t))

----------------------------------------------------------------------------
(* Distinctness of the negotiated ports, checked on PortSpec *)

\* the entries of the rewritten port lists: key and position
Entries == UNION {{<<k, i>> : i \in 1 .. Len(ports[k])} : k \in DOMAIN ports}

\* C25: the ports written to the rewritten document are pairwise distinct over
\* all entries of all keys of the port map.
C25_DistinctPorts ==
    Rewritten =>
        \A e \in Entries, f \in Entries :
            e # f => tempFile.doc[e[1]].fields[e[2]].n # tempFile.doc[f[1]].fields[f[2]].n

----------------------------------------------------------------------------
(* Frame of ShouldSendAlert, checked on ScanSpec *)

\* what the manager holds for key Q: its last send and its count, none if absent
EntryOf(m, Q) ==
    [lastSent |-> IF Q \in DOMAIN m.sentAlerts THEN <<m.sentAlerts[Q]>> ELSE <<>>,
     count |-> IF Q \in DOMAIN m.suppressionCounts THEN <<m.suppressionCounts[Q]>> ELSE <<>>]

\* the keys ShouldSendAlert has been called with
CalledKeys == {calls[i].key : i \in 1 .. Len(calls)}

\* the calls for Q give the results they give with the calls for other keys left out
AloneAsInterleaved(Q) ==
    LET own == KeyCalls(Q)
        seq == Replay(ManagerOf(config), own, 1)
    IN  \A i \in 1 .. Len(own) :
            /\ own[i].send = seq.results[i].send
            /\ own[i].count = seq.results[i].count

\* C26: a ShouldSendAlert call for P leaves the last send and the count of every
\* other key as they were; the results of the calls for a key do not depend on
\* the calls for other keys between them; the manager has entries exactly for
\* the keys that have matched, a count entry exactly where it has a last send.
C26_OnlyOwnKeyChanges ==
    /\ [][Called =>
            \A Q \in (PatternTexts \cup DOMAIN am'.sentAlerts
                        \cup DOMAIN am'.suppressionCounts) \ {LastCall.key} :
                EntryOf(am', Q) = EntryOf(am, Q)]_vars
    /\ [](/\ DOMAIN am.sentAlerts = CalledKeys
          /\ DOMAIN am.suppressionCounts = CalledKeys
          /\ \A Q \in CalledKeys : AloneAsInterleaved(Q))

\* a send for one key between a send and a suppressed match of another
C26_Witness ==
    /\ Len(calls) = 3
    /\ calls[1].key = calls[3].key
    /\ calls[2].key # calls[1].key
    /\ calls[2].send
    /\ ~calls[3].send /\ calls[3].count = 1
    /\ am.sentAlerts[calls[1].key] = calls[1].at
    /\ am.sentAlerts[calls[2].key] = calls[2].at
    /\ calls[2].at > calls[1].at

====
